---------------------------- MODULE Spec2Model ----------------------------
(***************************************************************************)
(* State machine of the App component of src/pages/index.js: the dice     *)
(* game's React state, its event handlers, the mount/option effect and    *)
(* the two timers every roll starts.                                       *)
(*                                                                         *)
(* A handler runs against the state of the latest render, so it is one    *)
(* atomic action.  The callbacks of setInterval and setTimeout run later  *)
(* and read the variables their rollDice call closed over (dice,          *)
(* frozenIds, tempDice), so every started roll keeps those as a record in  *)
(* `rolls` until its timeout fires.  An option change re-renders and then  *)
(* runs the effect; user events wait for the effect, timer callbacks may   *)
(* come before it.                                                         *)
(***************************************************************************)
EXTENDS Integers, Sequences, FiniteSets, TLC

\* ------------------------------------------------------------ bounds
\* The dice-count select offers 1..6; the model offers 1..MaxDice.
MaxDice == 2
\* Math.floor(Math.random() * 6) yields 0..5; the model draws from 0..MaxFace.
MaxFace == 1
\* Rolls whose timers are pending at the same time.
MaxPending == 2
\* Cap on currentRoll (maxRolls may be Infinity).
MaxRollCount == 3
\* Dice of the games the drag-and-drop specification starts from.
MaxDropDice == 3

\* ------------------------------------------------------------ values
\* useState(5), capped by the dice counts the model offers.
InitialNumDice == 5

\* null of draggedId / dragOverId, and findIndex's "not found".
NoId == -1

\* maxRolls is Infinity or a number.
Infinity == [inf |-> TRUE, n |-> 0]

Finite(n) == [inf |-> FALSE, n |-> n]

\* currentRoll >= maxRolls
AtLeast(c, m) == IF m.inf THEN FALSE ELSE c >= m.n

\* Numbers the custom input can hold are kept in halves: h stands for h/2,
\* so 3 is 1.5 and -2 is -1.  useState(10) is 20.
InitialCustomMaxRolls == 20

\* Number(e.target.value) for the texts "-1", "0.5", "1.5".
CustomInputs == {-2, 1, 3}

\* parseInt(x) of a number held in halves: the integer part, toward zero.
ParseInt(h) == IF h >= 0 THEN h \div 2 ELSE -((-h) \div 2)

Faces == 0..MaxFace

NumDiceOptions == 1..MaxDice

VARIABLES
  numDice, dice, frozenIds, currentRoll, maxRolls, isRolling,
  draggedId, dragOverId, score,
  limitEnabled, maxRollsSelection, customMaxRolls,
  effectPending,   \* the effect of lines 188-190 is scheduled and has not run
  rolls,           \* started rolls with a live timer, oldest first; `completed`
                   \* says the roll's timeout callback has run
  lastOp           \* the handler or callback that ran last

vars == <<numDice, dice, frozenIds, currentRoll, maxRolls, isRolling,
          draggedId, dragOverId, score,
          limitEnabled, maxRollsSelection, customMaxRolls,
          effectPending, rolls, lastOp>>

game == <<dice, frozenIds, currentRoll, maxRolls, isRolling, score>>

options == <<numDice, limitEnabled, maxRollsSelection, customMaxRolls>>

drag == <<draggedId, dragOverId>>

\* ------------------------------------------------------------ helpers
RECURSIVE SumScore(_)
\* currentDice.reduce((sum, d) => sum + d.value + 1, 0)
SumScore(s) == IF s = <<>> THEN 0 ELSE s[1].value + 1 + SumScore(Tail(s))

RECURSIVE SumValues(_)
SumValues(s) == IF s = <<>> THEN 0 ELSE s[1].value + SumValues(Tail(s))

\* calculateScore with a missing "+ 1": the sum of the face indexes
calculateScoreOfIndexes(currentDice) == SumValues(currentDice)

calculateScore(currentDice) == SumScore(currentDice)

Ids(s) == {s[i].id : i \in 1..Len(s)}

\* dice.findIndex(d => d.id === id), 0-based, -1 when absent
FindIndex(s, id) ==
  IF \E i \in 1..Len(s) : s[i].id = id
    THEN (CHOOSE i \in 1..Len(s) : s[i].id = id /\ \A j \in 1..(i-1) : s[j].id # id) - 1
    ELSE -1

\* Array.prototype.splice's start: negative counts from the end, clamped.
SpliceStart(s, start) ==
  IF start < 0 THEN (IF Len(s) + start < 0 THEN 0 ELSE Len(s) + start)
  ELSE IF start > Len(s) THEN Len(s) ELSE start

\* what arr.splice(start, 1) returns: the removed elements
SpliceRemoved(s, start) ==
  LET k == SpliceStart(s, start)
  IN IF k < Len(s) THEN <<s[k+1]>> ELSE <<>>

\* arr after arr.splice(start, 1)
SpliceDelete(s, start) ==
  LET k == SpliceStart(s, start)
  IN IF k < Len(s) THEN SubSeq(s, 1, k) \o SubSeq(s, k+2, Len(s)) ELSE s

\* arr after arr.splice(start, 0, ...items)
SpliceInsert(s, start, items) ==
  LET k == SpliceStart(s, start)
  IN SubSeq(s, 1, k) \o items \o SubSeq(s, k+1, Len(s))

\* s.map(d => frozen.has(d.id) ? d : { ...d, value: vals[i] })
Reroll(s, frozen, vals) ==
  [i \in 1..Len(s) |-> IF s[i].id \in frozen THEN s[i]
                        ELSE [id |-> s[i].id, value |-> vals[i]]]

\* ------------------------------------------------------------ initial state
Init ==
  /\ numDice = IF InitialNumDice <= MaxDice THEN InitialNumDice ELSE MaxDice
  /\ dice = <<>>
  /\ frozenIds = {}
  /\ currentRoll = 0
  /\ maxRolls = Infinity
  /\ isRolling = FALSE
  /\ draggedId = NoId
  /\ dragOverId = NoId
  /\ score = 0
  /\ limitEnabled = FALSE
  /\ maxRollsSelection = "3"
  /\ customMaxRolls = InitialCustomMaxRolls
  /\ effectPending = TRUE
  /\ rolls = <<>>
  /\ lastOp = "mount"

\* ------------------------------------------------------------ new game
\* newMaxRolls of startNewGame
NewMaxRolls ==
  IF limitEnabled
    THEN IF maxRollsSelection = "other"
           THEN (IF ParseInt(customMaxRolls) # 0 THEN Finite(ParseInt(customMaxRolls))
                 ELSE Finite(10))
           ELSE Finite(3)
    ELSE Infinity

\* Array.from({ length: numDice }, (_, i) => ({ id: i, value: vals[i+1] }))
InitialDice(vals) == [i \in 1..numDice |-> [id |-> i - 1, value |-> vals[i]]]

\* startNewGame without setFrozenIds(new Set())
startNewGameKeepsFrozen ==
  \E vals \in [1..numDice -> Faces] :
    /\ maxRolls' = NewMaxRolls
    /\ dice' = InitialDice(vals)
    /\ currentRoll' = 0
    /\ isRolling' = FALSE
    /\ score' = calculateScore(InitialDice(vals))
    /\ lastOp' = "startNewGame"
    /\ UNCHANGED <<frozenIds, options, drag, rolls>>

\* startNewGame without setCurrentRoll(0)
startNewGameKeepsRoll ==
  \E vals \in [1..numDice -> Faces] :
    /\ maxRolls' = NewMaxRolls
    /\ dice' = InitialDice(vals)
    /\ frozenIds' = {}
    /\ isRolling' = FALSE
    /\ score' = calculateScore(InitialDice(vals))
    /\ lastOp' = "startNewGame"
    /\ UNCHANGED <<currentRoll, options, drag, rolls>>

startNewGame ==
  \E vals \in [1..numDice -> Faces] :
    /\ maxRolls' = NewMaxRolls
    /\ dice' = InitialDice(vals)
    /\ frozenIds' = {}
    /\ currentRoll' = 0
    /\ isRolling' = FALSE
    /\ score' = calculateScore(InitialDice(vals))
    /\ lastOp' = "startNewGame"
    /\ UNCHANGED <<options, drag, rolls>>

\* useEffect(() => { startNewGame(); }, [numDice, limitEnabled, ...])
Effect ==
  /\ effectPending
  /\ effectPending' = FALSE
  /\ startNewGame

\* the New Game button, rendered when limitEnabled
ClickNewGame ==
  /\ ~effectPending
  /\ limitEnabled
  /\ UNCHANGED effectPending
  /\ startNewGame

\* ------------------------------------------------------------ options
SetNumDice(n) ==
  /\ ~effectPending
  /\ numDice' = n
  /\ effectPending' = (n # numDice)
  /\ lastOp' = "setNumDice"
  /\ UNCHANGED <<game, drag, rolls, limitEnabled, maxRollsSelection, customMaxRolls>>

ToggleLimit ==
  /\ ~effectPending
  /\ limitEnabled' = ~limitEnabled
  /\ effectPending' = TRUE
  /\ lastOp' = "setLimitEnabled"
  /\ UNCHANGED <<game, drag, rolls, numDice, maxRollsSelection, customMaxRolls>>

SetMaxRollsSelection(v) ==
  /\ ~effectPending
  /\ limitEnabled
  /\ maxRollsSelection' = v
  /\ effectPending' = (v # maxRollsSelection)
  /\ lastOp' = "setMaxRollsSelection"
  /\ UNCHANGED <<game, drag, rolls, numDice, limitEnabled, customMaxRolls>>

SetCustomMaxRolls(v) ==
  /\ ~effectPending
  /\ limitEnabled
  /\ maxRollsSelection = "other"
  /\ customMaxRolls' = v
  /\ effectPending' = (v # customMaxRolls)
  /\ lastOp' = "setCustomMaxRolls"
  /\ UNCHANGED <<game, drag, rolls, numDice, limitEnabled, maxRollsSelection>>

\* ------------------------------------------------------------ rolling
\* currentRoll > maxRolls
Above(c, m) == IF m.inf THEN FALSE ELSE c > m.n

\* rollDice with the guard "currentRoll > maxRolls"
rollDiceGuardOffByOne ==
  /\ lastOp' = "rollDice"
  /\ IF Above(currentRoll, maxRolls)
       THEN UNCHANGED <<game, rolls>>
       ELSE /\ isRolling' = TRUE
            /\ currentRoll' = currentRoll + 1
            /\ rolls' = Append(rolls, [dice |-> dice, frozenIds |-> frozenIds,
                                       tempDice |-> dice, completed |-> FALSE])
            /\ UNCHANGED <<dice, frozenIds, maxRolls, score>>
  /\ UNCHANGED <<options, drag, effectPending>>

rollDice ==
  /\ lastOp' = "rollDice"
  /\ IF AtLeast(currentRoll, maxRolls)
       THEN UNCHANGED <<game, rolls>>
       ELSE /\ isRolling' = TRUE
            /\ currentRoll' = currentRoll + 1
            /\ rolls' = Append(rolls, [dice |-> dice, frozenIds |-> frozenIds,
                                       tempDice |-> dice, completed |-> FALSE])
            /\ UNCHANGED <<dice, frozenIds, maxRolls, score>>
  /\ UNCHANGED <<options, drag, effectPending>>

\* the Roll button: disabled={isRolling || currentRoll >= maxRolls}
ClickRoll ==
  /\ ~effectPending
  /\ ~(isRolling \/ AtLeast(currentRoll, maxRolls))
  /\ currentRoll < MaxRollCount
  /\ Len(rolls) < MaxPending
  /\ rollDice

\* rollDice invoked although the roll count has reached the limit
RollAtLimit ==
  /\ ~effectPending
  /\ AtLeast(currentRoll, maxRolls)
  /\ rollDice

\* one firing of the setInterval callback of the i-th pending roll
Tick(i) ==
  \E vals \in [1..Len(rolls[i].tempDice) -> Faces] :
    LET tempDice == Reroll(rolls[i].tempDice, rolls[i].frozenIds, vals)
    IN /\ rolls' = [rolls EXCEPT ![i].tempDice = tempDice]
       /\ dice' = tempDice
       /\ lastOp' = "tick"
       /\ UNCHANGED <<frozenIds, currentRoll, maxRolls, isRolling, score,
                      options, drag, effectPending>>

\* the index of the oldest roll whose timeout has not fired
FirstPending ==
  CHOOSE i \in 1..Len(rolls) :
    ~rolls[i].completed /\ \A j \in 1..(i - 1) : rolls[j].completed

\* the setTimeout callback without clearInterval(rollingInterval): the roll's
\* interval stays alive
CompleteKeepsInterval ==
  /\ \E i \in 1..Len(rolls) : ~rolls[i].completed
  /\ \E vals \in [1..Len(rolls[FirstPending].dice) -> Faces] :
       LET finalDice == Reroll(rolls[FirstPending].dice, rolls[FirstPending].frozenIds, vals)
       IN /\ rolls' = [rolls EXCEPT ![FirstPending].completed = TRUE]
          /\ dice' = finalDice
          /\ score' = calculateScore(finalDice)
          /\ isRolling' = FALSE
          /\ lastOp' = "complete"
          /\ UNCHANGED <<frozenIds, currentRoll, maxRolls, options, drag, effectPending>>

\* the setTimeout callback without setIsRolling(false)
CompleteKeepsRolling ==
  /\ rolls # <<>>
  /\ \E vals \in [1..Len(Head(rolls).dice) -> Faces] :
       LET finalDice == Reroll(Head(rolls).dice, Head(rolls).frozenIds, vals)
       IN /\ rolls' = Tail(rolls)
          /\ dice' = finalDice
          /\ score' = calculateScore(finalDice)
          /\ lastOp' = "complete"
          /\ UNCHANGED <<frozenIds, currentRoll, maxRolls, isRolling, options, drag,
                         effectPending>>

\* the setTimeout callback of the oldest pending roll
Complete ==
  /\ rolls # <<>>
  /\ \E vals \in [1..Len(Head(rolls).dice) -> Faces] :
       LET finalDice == Reroll(Head(rolls).dice, Head(rolls).frozenIds, vals)
       IN /\ rolls' = Tail(rolls)
          /\ dice' = finalDice
          /\ score' = calculateScore(finalDice)
          /\ isRolling' = FALSE
          /\ lastOp' = "complete"
          /\ UNCHANGED <<frozenIds, currentRoll, maxRolls, options, drag, effectPending>>

\* ------------------------------------------------------------ freezing
\* toggleFreeze without the isRolling test
toggleFreezeWhileRolling(id) ==
  /\ lastOp' = "toggleFreeze"
  /\ IF currentRoll = 0
       THEN UNCHANGED frozenIds
       ELSE frozenIds' = IF id \in frozenIds THEN frozenIds \ {id}
                         ELSE frozenIds \cup {id}
  /\ UNCHANGED <<dice, currentRoll, maxRolls, isRolling, score,
                 options, drag, effectPending, rolls>>

toggleFreeze(id) ==
  /\ lastOp' = "toggleFreeze"
  /\ IF isRolling \/ currentRoll = 0
       THEN UNCHANGED frozenIds
       ELSE frozenIds' = IF id \in frozenIds THEN frozenIds \ {id}
                         ELSE frozenIds \cup {id}
  /\ UNCHANGED <<dice, currentRoll, maxRolls, isRolling, score,
                 options, drag, effectPending, rolls>>

ClickDie(id) ==
  /\ ~effectPending
  /\ id \in Ids(dice)
  /\ toggleFreeze(id)

\* ------------------------------------------------------------ drag and drop
handleDragStart(id) ==
  /\ ~effectPending
  /\ id \in Ids(dice)
  /\ draggedId' = id
  /\ lastOp' = "dragStart"
  /\ UNCHANGED <<game, options, dragOverId, effectPending, rolls>>

handleDragEnter(id) ==
  /\ ~effectPending
  /\ id \in Ids(dice)
  /\ dragOverId' = IF draggedId # id THEN id ELSE dragOverId
  /\ lastOp' = "dragEnter"
  /\ UNCHANGED <<game, options, draggedId, effectPending, rolls>>

handleDragEnd ==
  /\ ~effectPending
  /\ draggedId' = NoId
  /\ dragOverId' = NoId
  /\ lastOp' = "dragEnd"
  /\ UNCHANGED <<game, options, effectPending, rolls>>

\* handleDrop exchanging the two dice instead of moving the dragged one
DropResultSwap(s, from, target) ==
  LET draggedIndex == FindIndex(s, from)
      targetIndex == FindIndex(s, target)
  IN [i \in 1..Len(s) |-> IF i = draggedIndex + 1 THEN s[targetIndex + 1]
                           ELSE IF i = targetIndex + 1 THEN s[draggedIndex + 1]
                           ELSE s[i]]

\* newDice of handleDrop after both splices
DropResult(s, from, target) ==
  LET draggedIndex == FindIndex(s, from)
      targetIndex == FindIndex(s, target)
  IN SpliceInsert(SpliceDelete(s, draggedIndex), targetIndex,
                  SpliceRemoved(s, draggedIndex))

\* handleDrop returning early without handleDragEnd()
handleDropKeepsDragState(targetId) ==
  /\ ~effectPending
  /\ targetId \in Ids(dice)
  /\ IF draggedId = NoId \/ draggedId = targetId
       THEN /\ lastOp' = "dropIgnored"
            /\ UNCHANGED <<dice, drag>>
       ELSE /\ dice' = DropResult(dice, draggedId, targetId)
            /\ draggedId' = NoId
            /\ dragOverId' = NoId
            /\ lastOp' = "drop"
  /\ UNCHANGED <<frozenIds, currentRoll, maxRolls, isRolling, score,
                 options, effectPending, rolls>>

handleDrop(targetId) ==
  /\ ~effectPending
  /\ targetId \in Ids(dice)
  /\ dice' = IF draggedId = NoId \/ draggedId = targetId THEN dice
             ELSE DropResult(dice, draggedId, targetId)
  /\ draggedId' = NoId
  /\ dragOverId' = NoId
  /\ lastOp' = IF draggedId = NoId \/ draggedId = targetId THEN "dropIgnored"
               ELSE "drop"
  /\ UNCHANGED <<frozenIds, currentRoll, maxRolls, isRolling, score,
                 options, effectPending, rolls>>

\* ------------------------------------------------------------ specifications
\* The full next-state relation: every handler and callback of the component.
\* Its state space is too large to enumerate with the bounds above, so the
\* properties are checked under the three specifications below, each of which
\* lets the user operate a part of the controls.
Next ==
  \/ Effect
  \/ ClickNewGame
  \/ \E n \in NumDiceOptions : SetNumDice(n)
  \/ ToggleLimit
  \/ \E v \in {"3", "other"} : SetMaxRollsSelection(v)
  \/ \E v \in CustomInputs : SetCustomMaxRolls(v)
  \/ ClickRoll
  \/ RollAtLimit
  \/ \E i \in 1..Len(rolls) : Tick(i)
  \/ Complete
  \/ \E id \in Ids(dice) : ClickDie(id)
  \/ \E id \in Ids(dice) : handleDragStart(id)
  \/ \E id \in Ids(dice) : handleDragEnter(id)
  \/ handleDragEnd
  \/ \E id \in Ids(dice) : handleDrop(id)

Spec == Init /\ [][Next]_vars

\* The game: dice count, roll limit on/off, New Game, rolling and its timers,
\* freezing.  The user leaves the limit choice at "3" and drags nothing.
NextGame ==
  \/ Effect
  \/ ClickNewGame
  \/ \E n \in NumDiceOptions : SetNumDice(n)
  \/ ToggleLimit
  \/ ClickRoll
  \/ RollAtLimit
  \/ \E i \in 1..Len(rolls) : Tick(i)
  \/ Complete
  \/ \E id \in Ids(dice) : ClickDie(id)

SpecGame == Init /\ [][NextGame]_vars

\* The options: every option control, New Game, rolling and its completion,
\* freezing.  Interval ticks (which write only the dice) and drags are left out.
NextOptions ==
  \/ Effect
  \/ ClickNewGame
  \/ \E n \in NumDiceOptions : SetNumDice(n)
  \/ ToggleLimit
  \/ \E v \in {"3", "other"} : SetMaxRollsSelection(v)
  \/ \E v \in CustomInputs : SetCustomMaxRolls(v)
  \/ ClickRoll
  \/ RollAtLimit
  \/ Complete
  \/ \E id \in Ids(dice) : ClickDie(id)

SpecOptions == Init /\ [][NextOptions]_vars

\* Drag and drop on its own: any freshly started game of 1..MaxDropDice dice
\* (the state startNewGame leaves, no roll pending), then only drag events.
InitDrop ==
  /\ numDice \in 1..MaxDropDice
  /\ \E vals \in [1..numDice -> Faces] :
       /\ dice = InitialDice(vals)
       /\ score = calculateScore(InitialDice(vals))
  /\ frozenIds = {}
  /\ currentRoll = 0
  /\ maxRolls = Infinity
  /\ isRolling = FALSE
  /\ draggedId = NoId
  /\ dragOverId = NoId
  /\ limitEnabled = FALSE
  /\ maxRollsSelection = "3"
  /\ customMaxRolls = InitialCustomMaxRolls
  /\ effectPending = FALSE
  /\ rolls = <<>>
  /\ lastOp = "startNewGame"

NextDrop ==
  \/ \E id \in Ids(dice) : handleDragStart(id)
  \/ \E id \in Ids(dice) : handleDragEnter(id)
  \/ handleDragEnd
  \/ \E id \in Ids(dice) : handleDrop(id)

SpecDrop == InitDrop /\ [][NextDrop]_vars

\* Drag and drop during the game: a game of the initial dice count, rolling
\* and its timers, freezing and the drag handlers.  The options stay untouched.
NextDrag ==
  \/ Effect
  \/ ClickRoll
  \/ \E i \in 1..Len(rolls) : Tick(i)
  \/ Complete
  \/ \E id \in Ids(dice) : ClickDie(id)
  \/ \E id \in Ids(dice) : handleDragStart(id)
  \/ \E id \in Ids(dice) : handleDragEnter(id)
  \/ handleDragEnd
  \/ \E id \in Ids(dice) : handleDrop(id)

SpecDrag == Init /\ [][NextDrag]_vars

\* A drag that outlives its dice: dice counts 1..MaxDropDice, rolling and its
\* completion, drag start and drop.  The user drops only when the die the
\* drag started on is no longer shown, or when no drag is recorded.
NextStaleDrag ==
  \/ Effect
  \/ \E n \in 1..MaxDropDice : SetNumDice(n)
  \/ ClickRoll
  \/ Complete
  \/ \E id \in Ids(dice) : handleDragStart(id)
  \/ \E id \in Ids(dice) : draggedId \notin Ids(dice) /\ handleDrop(id)

SpecStaleDrag == Init /\ [][NextStaleDrag]_vars

\* Rolling with timers that fire: the limit switch, New Game, rolling, ticks
\* and completion.  A pending timeout fires after its 1000 ms, so Complete is
\* weakly fair.
NextRoll ==
  \/ Effect
  \/ ClickNewGame
  \/ ToggleLimit
  \/ ClickRoll
  \/ \E i \in 1..Len(rolls) : Tick(i)
  \/ Complete

SpecRollFair == Init /\ [][NextRoll]_vars /\ WF_vars(Complete)

\* ------------------------------------------------------------ claims
\* The sum of (value+1) over a dice sequence, counted as pips: one pair
\* <<i, k>> for every pip k of the die at index i.
FaceTotal(s) ==
  Cardinality({p \in (1..Len(s)) \X (0..5) :
                 p[1] \in 1..Len(s) /\ p[2] <= s[p[1]].value})

\* The 1-based index of the die with this id.
PosOf(s, id) == CHOOSE i \in 1..Len(s) : s[i].id = id

\* The sequence without the die with this id.
Without(s, id) == SelectSeq(s, LAMBDA d : d.id # id)

TimerOps == {"tick", "complete"}

\* C1: once the first startNewGame has run (no effect is waiting), the dice
\* sequence holds exactly numDice dice and their ids are pairwise distinct.
C1_DiceCountAndIds ==
  ~effectPending =>
     /\ Len(dice) = numDice
     /\ \A i, j \in 1..Len(dice) : i # j => dice[i].id # dice[j].id

\* C2: an interval tick or a completion callback never changes the value of a
\* die whose id is in the frozen set when the callback runs.
C2_FrozenKeptByTimers ==
  [][lastOp' \in TimerOps =>
       \A i \in 1..Len(dice) : \A j \in 1..Len(dice') :
         (dice[i].id \in frozenIds /\ dice'[j].id = dice[i].id)
            => dice'[j].value = dice[i].value]_vars

\* C3: currentRoll never exceeds maxRolls (unbounded, or a number).
C3_RollWithinMax == maxRolls.inf \/ currentRoll <= maxRolls.n

\* C4: the frozen set is a subset of the ids of the dice in the dice sequence.
C4_FrozenSubsetOfIds == frozenIds \subseteq Ids(dice)

\* C5: the state right after startNewGame holds numDice dice with ids
\* 0..numDice-1 in index order and values in 0..5, no frozen id, currentRoll 0,
\* isRolling false, and the score is the sum of (value+1) of those dice.
C5_NewGameState ==
  lastOp = "startNewGame" =>
     /\ Len(dice) = numDice
     /\ \A i \in 1..Len(dice) : dice[i].id = i - 1 /\ dice[i].value \in 0..5
     /\ frozenIds = {}
     /\ currentRoll = 0
     /\ ~isRolling
     /\ score = FaceTotal(dice)

\* C5's case: a game of more than one die started while a roll was pending.
C5_Witness == lastOp = "startNewGame" /\ numDice > 1 /\ rolls # <<>> /\ score > numDice

OptionOps == {"setNumDice", "setLimitEnabled", "setMaxRollsSelection", "setCustomMaxRolls"}

\* C6: a change of numDice, limitEnabled, maxRollsSelection or customMaxRolls
\* schedules the reset; until it has run no handler of a user event runs (only
\* timer callbacks may); and the reset empties the frozen set and sets
\* currentRoll to 0.
C6_OptionChangeResets ==
  [][/\ (options' # options => effectPending')
     /\ (effectPending => lastOp' \in {"startNewGame"} \cup TimerOps)
     /\ (effectPending /\ lastOp' = "startNewGame"
           => ~effectPending' /\ frozenIds' = {} /\ currentRoll' = 0)]_vars

\* C6's case: an option was changed while a roll was in progress, with a die
\* frozen and rolls counted.
C6_Witness ==
  effectPending /\ lastOp \in OptionOps /\ isRolling /\ frozenIds # {} /\ currentRoll > 1

\* C7: right after a roll's completion callback the score is the sum over the
\* dice sequence of (value+1).
C7_ScoreAfterCompletion == lastOp = "complete" => score = FaceTotal(dice)

\* C7's case: a completion that kept a frozen die and re-rolled another.
C7_Witness ==
  lastOp = "complete" /\ frozenIds # {} /\ Len(dice) > Cardinality(frozenIds)
    /\ score > Len(dice)

\* C8: rollDice called when currentRoll equals maxRolls changes nothing and
\* starts no timer; with the limit 3, currentRoll never passes 3.
C8_RollAtLimitIsNoOp ==
  [][/\ (lastOp' = "rollDice" /\ ~maxRolls.inf /\ currentRoll = maxRolls.n)
          => UNCHANGED <<dice, frozenIds, currentRoll, maxRolls, isRolling, score, rolls>>
     /\ (~maxRolls'.inf /\ maxRolls'.n = 3 => currentRoll' <= 3)]_vars

\* C8's case: rollDice was called after the third roll of a game limited to 3.
C8_Witness ==
  lastOp = "rollDice" /\ limitEnabled /\ maxRolls = Finite(3) /\ currentRoll = 3
    /\ ~isRolling /\ rolls = <<>>

\* C9: toggleFreeze(id) leaves the frozen set alone while rolling or before the
\* first roll; otherwise it flips the membership of id and of no other id; it
\* never changes the dice, currentRoll or the score.
C9_ToggleFreezeFrame ==
  [][\A id \in 0..(MaxDice - 1) :
       ClickDie(id) =>
         /\ (isRolling \/ currentRoll = 0) => frozenIds' = frozenIds
         /\ ~(isRolling \/ currentRoll = 0) =>
              /\ id \in frozenIds' <=> id \notin frozenIds
              /\ frozenIds' \ {id} = frozenIds \ {id}
         /\ UNCHANGED <<dice, currentRoll, score>>]_vars

\* C9's case: after a roll, a click on a die of a two-dice game changed the
\* frozen set and left exactly one die frozen.
C9_Witness ==
  lastOp = "toggleFreeze" /\ ~isRolling /\ currentRoll > 0
    /\ Cardinality(frozenIds) = 1 /\ Cardinality(Ids(dice)) > 1

\* C10: a drop on die B while die A # B is dragged, both in the dice sequence,
\* puts A at the index B had, keeps every other die in the same relative
\* order, and changes no die's id or value.
C10_DropMovesDragged ==
  [][\A b \in Ids(dice) :
       (handleDrop(b) /\ draggedId # NoId /\ draggedId # b /\ draggedId \in Ids(dice))
         => /\ Len(dice') = Len(dice)
            /\ dice'[PosOf(dice, b)] = dice[PosOf(dice, draggedId)]
            /\ Without(dice', draggedId) = Without(dice, draggedId)]_vars

\* C10's case: a drop moved the die of id 0 from the first place to the last,
\* past other dice.
C10_Witness ==
  lastOp = "drop" /\ Len(dice) > 2 /\ dice[Len(dice)].id = 0 /\ dice[1].id = 1

\* C11: a drop on the dragged die itself, or with no drag recorded, leaves the
\* dice, the frozen set, currentRoll and the score unchanged and leaves
\* draggedId and dragOverId null.
C11_IgnoredDropFrame ==
  [][\A b \in Ids(dice) :
       (handleDrop(b) /\ (draggedId = NoId \/ draggedId = b))
         => /\ UNCHANGED <<dice, frozenIds, currentRoll, score>>
            /\ draggedId' = NoId
            /\ dragOverId' = NoId]_vars

\* C11's case: an ignored drop in a game with rolls counted and a die frozen.
C11_Witness ==
  lastOp = "dropIgnored" /\ Len(dice) > 1 /\ frozenIds # {} /\ currentRoll > 0

\* C12: startNewGame sets maxRolls to unbounded with the limit off, to 3 with
\* the choice "3", and with the choice "other" to customMaxRolls when that is
\* a positive integer and to 10 when it is not positive; so maxRolls is
\* unbounded or at least 1.  (customMaxRolls is held in halves.)
C12_MaxRollsFromOptions ==
  lastOp = "startNewGame" =>
     /\ ~limitEnabled => maxRolls.inf
     /\ (limitEnabled /\ maxRollsSelection = "3") => maxRolls = Finite(3)
     /\ (limitEnabled /\ maxRollsSelection = "other" /\ customMaxRolls > 0
           /\ customMaxRolls % 2 = 0) => maxRolls = Finite(customMaxRolls \div 2)
     /\ (limitEnabled /\ maxRollsSelection = "other" /\ customMaxRolls <= 0)
           => maxRolls = Finite(10)
     /\ (maxRolls.inf \/ maxRolls.n >= 1)

\* C13: while a roll's timers are pending isRolling is true, and at most one
\* roll's timers are pending.
C13_OneRollAtATime == (rolls # <<>> => isRolling) /\ Len(rolls) <= 1

\* C14: every interval tick that runs belongs to a roll whose completion
\* callback has not run: the completion cancels the roll's interval.
C14_NoTickAfterCompletion ==
  [][lastOp' = "tick" =>
       \E i \in 1..Len(rolls) :
         /\ ~rolls[i].completed
         /\ rolls' = [rolls EXCEPT ![i].tempDice = dice']]_vars

\* C14's case: a tick of the second roll of a game, after the first roll's
\* completion has run.
C14_Witness ==
  lastOp = "tick" /\ currentRoll > 1 /\ Len(rolls) = 1 /\ isRolling

\* C15: with timers that fire, whenever a roll is pending a completion
\* callback eventually runs and leaves isRolling false; completions run oldest
\* first and remove the roll, so every started roll completes.
C15_RollCompletes == (rolls # <<>>) ~> (lastOp = "complete" /\ ~isRolling)

\* C15's case: the only pending roll has completed.
C15_Witness ==
  lastOp = "complete" /\ ~isRolling /\ rolls = <<>> /\ currentRoll > 0

\* C16: the completion callback works on the dice and the frozen set as they
\* are when it fires: the dice keep their ids and order, and a die frozen at
\* that moment keeps its value.
C16_CompletionUsesCurrentState ==
  [][lastOp' = "complete" =>
       /\ Len(dice') = Len(dice)
       /\ \A i \in 1..Len(dice) :
            /\ dice'[i].id = dice[i].id
            /\ dice[i].id \in frozenIds => dice'[i].value = dice[i].value]_vars

\* C17: once the first startNewGame has run, whenever isRolling is false the
\* score is the sum over the dice sequence of (value+1).
C17_ScoreWhenIdle == (~effectPending /\ ~isRolling) => score = FaceTotal(dice)

\* C18: a tick or a completion callback changes only values: the dice keep
\* their ids in the same order, so a reordering made during the roll stays.
C18_TimersKeepOrder ==
  [][lastOp' \in TimerOps =>
       /\ Len(dice') = Len(dice)
       /\ \A i \in 1..Len(dice) : dice'[i].id = dice[i].id]_vars

\* b holds the same dice as a, each as often.
IsPermutation(a, b) ==
  /\ Len(a) = Len(b)
  /\ \A i \in 1..Len(a) :
       Cardinality({j \in 1..Len(a) : a[j] = a[i]})
         = Cardinality({j \in 1..Len(b) : b[j] = a[i]})

\* C19: a drop moves no die but the one whose id is draggedId; when no die
\* has that id the dice stay as they are; and the dice after a drop are a
\* permutation of the dice before it.
C19_DropMovesOnlyDragged ==
  [][\A b \in Ids(dice) :
       handleDrop(b) =>
         /\ (draggedId # NoId /\ draggedId \notin Ids(dice)) => dice' = dice
         /\ Without(dice', draggedId) = Without(dice, draggedId)
         /\ IsPermutation(dice, dice')]_vars

\* C20: while a drag source is recorded, the recorded drop target is another
\* die.
C20_DropTargetIsNotSource == draggedId # NoId => dragOverId # draggedId

=============================================================================
